---------------------------- MODULE Spec2Model ----------------------------
(***************************************************************************)
(* Browser-navigation-driven OAuth acquisition (StreamlabsAuth, the        *)
(* in-process Electron variant) and the typed IPC message router           *)
(* (IpcMessageRouter).                                                     *)
(*                                                                         *)
(* Spec        one acquisition attempt of StreamlabsAuth: findToken, the   *)
(*             navigation / closed / IPC callbacks, the debounce timer,    *)
(*             the cookie save, the in-page exchange and cleanup.          *)
(* SpecRouter  one IpcMessageRouter: on / off / registerHandlers / handle. *)
(* SpecMulti   the same router fed through handleMultiple.                 *)
(* SpecManager AuthManager.retrieveToken and tokens.json.                  *)
(* SpecWebview StreamlabsAuth of the webview build.                        *)
(* SpecChild   StreamlabsAuth of the child-process build.                  *)
(* SpecIpcMain the createIpcHandler wrapper and the 'auth:login' handler.  *)
(* SpecBridge  IpcMain of the webview host and the page's electronAPI.     *)
(* SpecConfig  ConfigManager and config.json.                              *)
(***************************************************************************)
EXTENDS Naturals, Sequences, FiniteSets

VARIABLES
    \* ---- StreamlabsAuth (one instance = one acquisition attempt) ----
    pc,                 \* position of createWindow(): idle, cookies, loading, loaded, failed
    browser,            \* the BrowserWindow itself: none, open, closing, closed
    window,             \* this.window is non-null
    ipcListening,       \* logHandler / resultHandler are registered on ipcMain
    tokenFetchStarted,  \* this.tokenFetchStarted
    codeVerifier,       \* this.codeVerifier ("" when none is held)
    currentUrl,         \* webContents.getURL() ("" before the first page and once the window is gone)
    timers,             \* pending setTimeout(.., 2000) callbacks of checkLoginStatus
    saveQueue,          \* codes whose saveCookies().then(executeTokenFetch) is pending
    fetchQueue,         \* codes whose executeJavaScript(fetchCode) is in flight
    cleanups,           \* cleanup() calls waiting on their saveCookies()
    outcome,            \* what the promise returned by findToken settled with (<<>> = pending)
    authNavIssued,      \* forceNavigateAuth() has called loadURL(authUrl)
    \* ---- history of the attempt (observations, not program state) ----
    firstSuccess,       \* <<code>> of the first success URL delivered to a navigation callback
    laterSuccess,       \* a success URL with another code was delivered after that one
    fetchStarts,        \* codes executeTokenFetch was called with
    delivered,          \* handleFetchResult has been called with an exchange result
    closedBy,           \* who closed the window: "" (nobody yet), user, cleanup
    closedPending,      \* findToken was still pending when the user closed the window
    ioOk,               \* the cookie read or write that finished last succeeded
    forcedBy,           \* who has called forceNavigateAuth() with a window: timer, manual
    \* ---- IpcMessageRouter ----
    handlers,           \* this.handlers: type -> handler id (NoHandler = no entry)
    options,            \* this.options: autoGenerateId, autoTimestamp
    lastEvent,          \* history: the last registration event that named each type
    wire,               \* the raw text last passed to handle() (<<>> = none yet)
    calls,              \* the callbacks handle() invoked for it, in order
    threw,              \* handle() ended by throwing to its caller
    caught,             \* history: some handle() call so far had its handler throw
    multi,              \* the text last passed to handleMultiple(), as its delimited fields
    multiLog,           \* the handle() calls handleMultiple() made for it, in order
    multiThrew,         \* handleMultiple() ended by throwing to its caller
    \* ---- AuthManager and the token cache file ----
    tokenFile,          \* tokens.json: whether it exists and its text
    managers,           \* the AuthManager instances constructed: codeVerifier of each
    rtCalls,            \* the retrieveToken() calls made so far, in call order
    attempts,           \* history: every StreamlabsAuth constructed, with its verifier
    saves,              \* history: every write of tokens.json by retrieveToken()
    \* ---- the other builds of the login window, and the main-process IPC wrapper ----
    child,              \* StreamlabsAuth of electron-login.ts (child process)
    webview,            \* StreamlabsAuth of the webview build
    ipcMain,            \* the handlers registered through createIpcHandler
    \* ---- the webview host's request / response bridge, and the CLI's config file ----
    bridge,             \* IpcMain of the webview host and window.electronAPI of its page
    config              \* config.json and the ConfigManager of the running command

authVars == <<pc, browser, window, ipcListening, tokenFetchStarted, codeVerifier,
              currentUrl, timers, saveQueue, fetchQueue, cleanups, outcome,
              authNavIssued, firstSuccess, laterSuccess, fetchStarts, delivered,
              closedBy, closedPending, ioOk, forcedBy>>

routerVars == <<handlers, options, lastEvent, wire, calls, threw, caught,
                multi, multiLog, multiThrew>>

managerVars == <<tokenFile, managers, rtCalls, attempts, saves>>

variantVars == <<child, webview, ipcMain, bridge, config>>

vars == <<authVars, routerVars, managerVars, variantVars>>

(***************************************************************************)
(* Bounds of the model.                                                    *)
(***************************************************************************)
MaxTimers == 1      \* debounce timers pending at once
MaxPending == 2     \* calls of executeTokenFetch recorded / continuations queued
MaxCleanups == 1    \* cleanup() calls pending at once
MaxSegments == 2    \* delimited fields of a text passed to handleMultiple()
MaxManagers == 2    \* AuthManager instances constructed
MaxCalls == 2       \* retrieveToken() calls made


(***************************************************************************)
(* URLs.  A URL is named here and described by what the code asks of it:   *)
(* whether new URL(url) parses it, what searchParams.get('code') returns,  *)
(* and which of the substrings the code searches for it contains.          *)
(*   login            https://www.tiktok.com/login                         *)
(*   foryou           https://www.tiktok.com/foryou                        *)
(*   auth             https://streamlabs.com/m/login?...&code_challenge=.. *)
(*   ok_abc           https://streamlabs.com/tiktok/auth?success=true&code=abc *)
(*   ok_xyz           https://streamlabs.com/tiktok/auth?success=true&code=xyz *)
(*   dash_abc         https://streamlabs.com/dashboard?code=abc            *)
(*   slobs_xyz        https://streamlabs.com/slobs/dashboard?code=xyz      *)
(*   marker_nocode    https://streamlabs.com/tiktok/auth?success=true      *)
(*   marker_emptycode https://streamlabs.com/tiktok/auth?success=true&code= *)
(*   code_nomarker    https://streamlabs.com/tiktok/auth?code=abc          *)
(*   bad              success=true&code=abc   (no scheme: new URL throws)  *)
(***************************************************************************)
Urls == {"login", "foryou", "auth", "ok_abc", "ok_xyz", "dash_abc", "slobs_xyz",
         "marker_nocode", "marker_emptycode", "code_nomarker", "bad"}

NoCode == "<null>"

DASHBOARD == "https://streamlabs.com/dashboard"

SLOBS_DASHBOARD == "https://streamlabs.com/slobs/dashboard"

UrlText ==
    [u \in Urls |->
        CASE u = "login"            -> {"tiktok.com", "login"}
          [] u = "foryou"           -> {"tiktok.com", "/foryou"}
          [] u = "auth"             -> {"streamlabs", "login"}
          [] u = "ok_abc"           -> {"streamlabs", "success=true"}
          [] u = "ok_xyz"           -> {"streamlabs", "success=true"}
          [] u = "dash_abc"         -> {"streamlabs", DASHBOARD}
          [] u = "slobs_xyz"        -> {"streamlabs", SLOBS_DASHBOARD}
          [] u = "marker_nocode"    -> {"streamlabs", "success=true"}
          [] u = "marker_emptycode" -> {"streamlabs", "success=true"}
          [] u = "code_nomarker"    -> {"streamlabs"}
          [] u = "bad"              -> {"success=true"}]

UrlParses == [u \in Urls |-> u # "bad"]

UrlCode ==
    [u \in Urls |->
        CASE u \in {"ok_abc", "dash_abc", "code_nomarker"} -> "abc"
          [] u \in {"ok_xyz", "slobs_xyz"}                 -> "xyz"
          [] u = "marker_emptycode"                        -> ""
          [] OTHER                                         -> NoCode]

\* url.includes(s); the empty string (no page loaded yet) contains none of them
includes(url, s) == url # "" /\ s \in UrlText[url]

\* JavaScript truthiness of the value of searchParams.get('code')
Truthy(code) == code # NoCode /\ code # ""

(***************************************************************************)
(* Exchange results (AuthResult), as the injected script, the catch block  *)
(* of executeTokenFetch, or a 'fetch-result' IPC message can deliver them. *)
(*   data    : "undefined" | "null" | "object"     (result.data)           *)
(*   dsuccess: "absent" | "true" | "false"         (result.data.success)   *)
(*   ddata   : "absent" | "token"                  (result.data.data)      *)
(***************************************************************************)
ResultNames == {"ok", "ok_no_data", "nested_false", "nested_absent",
                "parse_error", "js_error", "outer_false"}

Results ==
    [n \in ResultNames |->
        CASE n = "ok"            -> [success |-> TRUE,  data |-> "object",    dsuccess |-> "true",   ddata |-> "token"]
          [] n = "ok_no_data"    -> [success |-> TRUE,  data |-> "object",    dsuccess |-> "true",   ddata |-> "absent"]
          [] n = "nested_false"  -> [success |-> TRUE,  data |-> "object",    dsuccess |-> "false",  ddata |-> "absent"]
          [] n = "nested_absent" -> [success |-> TRUE,  data |-> "object",    dsuccess |-> "absent", ddata |-> "absent"]
          [] n = "parse_error"   -> [success |-> FALSE, data |-> "undefined", dsuccess |-> "absent", ddata |-> "absent"]
          [] n = "js_error"      -> [success |-> FALSE, data |-> "undefined", dsuccess |-> "absent", ddata |-> "absent"]
          [] n = "outer_false"   -> [success |-> FALSE, data |-> "object",    dsuccess |-> "true",   ddata |-> "token"]]

\* what the script of executeTokenFetch can return: {success: true, data: json}
\* for any JSON body, the parse-error shape, or the network-error shape
\* (the latter two are {success: false, error: ...}: parse_error stands for both)
ScriptResults == ResultNames \ {"js_error", "outer_false"}

\* a 'fetch-result' message carries whatever the page sent
IpcResults == ResultNames

Senders == {"auth", "other"}

LogMessages == {"TRIGGER_STREAMLABS_AUTH", "hello"}

(***************************************************************************)
(* The promise returned by findToken.                                      *)
(***************************************************************************)
Resolved(n) == [kind |-> "resolved", error |-> "", result |-> n]

Rejected(e, n) == [kind |-> "rejected", error |-> e, result |-> n]

WINDOW_CLOSED == Rejected("Window closed by user", "none")

NO_CODE_VERIFIER == Rejected("No CodeVerifier found", "none")

FETCH_FAILED(n) == Rejected("Fetch failed", n)

CREATE_WINDOW_ERROR == Rejected("createWindow threw", "none")

\* resolve / reject of a promise: only the first call settles it
Settle(v) == outcome' = IF outcome = <<>> THEN <<v>> ELSE outcome

Inc(n, max) == IF n < max THEN n + 1 ELSE max

(***************************************************************************)
(* StreamlabsAuth                                                          *)
(***************************************************************************)

\* checkLoginStatus: the URL classifies as logged in
loggedIn(url) ==
    \/ (includes(url, "tiktok.com") /\ ~includes(url, "login") /\ ~includes(url, "streamlabs"))
    \/ includes(url, "/foryou")

\* checkLoginStatus(url): arms the 2000 ms timer
checkLoginStatus(url) ==
    timers' = IF loggedIn(url) THEN Inc(timers, MaxTimers) ELSE timers

\* a forceNavigateAuth() that loads nothing
forceNavigateAuth_noLoad == UNCHANGED authNavIssued

\* forceNavigateAuth(): this.window?.loadURL(this.authUrl)
forceNavigateAuth ==
    authNavIssued' = (authNavIssued \/ window)

\* checkSuccess: isSuccess, for a URL that parsed and the code read from it
isSuccess(url, code) ==
    \/ (includes(url, "success=true") /\ Truthy(code))
    \/ (includes(url, DASHBOARD) /\ Truthy(code))
    \/ (includes(url, SLOBS_DASHBOARD) /\ Truthy(code))

\* checkSuccess without its single-fire guard
fetchGuard_absent == TRUE

\* checkSuccess: the single-fire guard
fetchGuard == ~tokenFetchStarted

\* checkSuccess accepting a bare success marker, with no code required
startsFetch_markerOnly(url) ==
    /\ UrlParses[url]
    /\ UrlText[url] \cap {"success=true", DASHBOARD, SLOBS_DASHBOARD} # {}
    /\ ~tokenFetchStarted

\* checkSuccess: the exchange is started for this URL
startsFetch(url) ==
    /\ UrlParses[url]
    /\ isSuccess(url, UrlCode[url])
    /\ fetchGuard
    /\ Truthy(UrlCode[url])

\* checkSuccess(url): sets the guard and queues saveCookies().then(executeTokenFetch(code))
checkSuccess(url) ==
    IF startsFetch(url) /\ Len(saveQueue) < MaxPending
    THEN /\ tokenFetchStarted' = TRUE
         /\ saveQueue' = Append(saveQueue, UrlCode[url])
    ELSE UNCHANGED <<tokenFetchStarted, saveQueue>>

\* handleFetchResult: the success test
resultOk(r) == r.success /\ r.data = "object" /\ r.dsuccess = "true"

\* handleFetchResult(result): resolve or reject, then cleanup()
handleFetchResult(n) ==
    /\ IF resultOk(Results[n]) THEN Settle(Resolved(n)) ELSE Settle(FETCH_FAILED(n))
    /\ cleanups' = Inc(cleanups, MaxCleanups)
    /\ delivered' = TRUE

\* a 'closed' handler that rejects whenever the window closes
closedRejects_always == TRUE

\* the 'closed' handler of setupLifecycle: reject unless the exchange has started
closedRejects == ~tokenFetchStarted

\* the 'closed' handlers of setupIPC and setupLifecycle
closed ==
    /\ browser' = "closed"
    /\ currentUrl' = ""
    /\ window' = FALSE
    /\ ipcListening' = FALSE
    /\ IF closedRejects THEN Settle(WINDOW_CLOSED) ELSE UNCHANGED outcome

\* the success condition of a URL: a non-empty code and a success marker
IsSuccessUrl(url) ==
    /\ UrlParses[url]
    /\ Truthy(UrlCode[url])
    /\ UrlText[url] \cap {"success=true", DASHBOARD, SLOBS_DASHBOARD} # {}

LogSuccess(url) ==
    IF ~IsSuccessUrl(url)
    THEN UNCHANGED <<firstSuccess, laterSuccess>>
    ELSE IF firstSuccess = <<>>
         THEN firstSuccess' = <<UrlCode[url]>> /\ UNCHANGED laterSuccess
         ELSE /\ laterSuccess' = (laterSuccess \/ UrlCode[url] # firstSuccess[1])
              /\ UNCHANGED firstSuccess

AuthInit ==
    /\ pc = "idle"
    /\ browser = "none"
    /\ window = FALSE
    /\ ipcListening = FALSE
    /\ tokenFetchStarted = FALSE
    /\ codeVerifier \in {"", "verifier"}
    /\ currentUrl = ""
    /\ timers = 0
    /\ saveQueue = <<>>
    /\ fetchQueue = <<>>
    /\ cleanups = 0
    /\ outcome = <<>>
    /\ authNavIssued = FALSE
    /\ firstSuccess = <<>>
    /\ laterSuccess = FALSE
    /\ fetchStarts = <<>>
    /\ delivered = FALSE
    /\ closedBy = ""
    /\ closedPending = FALSE
    /\ ioOk = TRUE
    /\ forcedBy = {}

\* findToken() -> createWindow(): window created, setupIPC, setupLifecycle, loadCookies begun
FindToken ==
    /\ pc = "idle"
    /\ pc' = "cookies"
    /\ browser' = "open"
    /\ window' = TRUE
    /\ ipcListening' = TRUE
    /\ UNCHANGED <<delivered, tokenFetchStarted, codeVerifier, currentUrl, timers, saveQueue,
                   fetchQueue, cleanups, outcome, authNavIssued, firstSuccess, laterSuccess,
                   fetchStarts, closedBy, closedPending,
                   ioOk, forcedBy, routerVars, managerVars, variantVars>>

\* findToken() -> createWindow(): new BrowserWindow throws, .catch(reject)
CreateWindowThrows ==
    /\ pc = "idle"
    /\ pc' = "failed"
    /\ Settle(CREATE_WINDOW_ERROR)
    /\ UNCHANGED <<delivered, browser, window, ipcListening, tokenFetchStarted, codeVerifier,
                   currentUrl, timers, saveQueue, fetchQueue, cleanups, authNavIssued,
                   firstSuccess, laterSuccess, fetchStarts, closedBy, closedPending,
                   ioOk, forcedBy, routerVars, managerVars, variantVars>>

\* a loadCookies / saveCookies whose body is not inside a try
cookieErrorCaught_absent == FALSE

\* loadCookies, saveCookies: the whole body is inside try/catch, the error is logged
cookieErrorCaught == TRUE

\* the .then callback of saveCookies() runs without the save being awaited
saveSettled_notAwaited(queue) == queue

\* the saveCookies() promise at the head has settled: its .then callback runs
saveSettled(queue) == Tail(queue)

\* createWindow(): loadCookies() returned (ok: the jar was injected or there is none,
\* ~ok: reading, parsing or injecting it failed); this.window.loadURL(TIKTOK_LOGIN) is
\* called (this.window is null if the window was closed meanwhile: TypeError, .catch(reject))
LoadCookiesDone(ok) ==
    /\ pc = "cookies"
    /\ ioOk' = ok
    /\ IF ~ok /\ ~cookieErrorCaught
       THEN pc' = "failed" /\ Settle(Rejected("cookie I/O error", "none"))
       ELSE IF window
            THEN pc' = "loading" /\ UNCHANGED outcome
            ELSE pc' = "failed" /\ Settle(CREATE_WINDOW_ERROR)
    /\ UNCHANGED <<delivered, browser, window, ipcListening, tokenFetchStarted, codeVerifier,
                   currentUrl, timers, saveQueue, fetchQueue, cleanups, authNavIssued,
                   firstSuccess, laterSuccess, fetchStarts, closedBy, closedPending,
                   forcedBy, routerVars, managerVars, variantVars>>

\* createWindow(): loadURL resolved; checkLoginStatus(getURL())
LoadUrlResolved ==
    /\ pc = "loading"
    /\ window
    /\ pc' = "loaded"
    /\ checkLoginStatus(currentUrl)
    /\ UNCHANGED <<delivered, browser, window, ipcListening, tokenFetchStarted, codeVerifier,
                   currentUrl, saveQueue, fetchQueue, cleanups, outcome, authNavIssued,
                   firstSuccess, laterSuccess, fetchStarts, closedBy, closedPending,
                   ioOk, forcedBy, routerVars, managerVars, variantVars>>

\* createWindow(): loadURL rejected (load failure, aborted navigation, window gone)
LoadUrlRejected ==
    /\ pc = "loading"
    /\ pc' = "failed"
    /\ Settle(CREATE_WINDOW_ERROR)
    /\ UNCHANGED <<delivered, browser, window, ipcListening, tokenFetchStarted, codeVerifier,
                   currentUrl, timers, saveQueue, fetchQueue, cleanups, authNavIssued,
                   firstSuccess, laterSuccess, fetchStarts, closedBy, closedPending,
                   ioOk, forcedBy, routerVars, managerVars, variantVars>>

\* a page is (being) loaded in the window: loadURL has been called
pageLoading == browser = "open" /\ pc # "cookies"

\* webContents 'did-navigate'
DidNavigate(url) ==
    /\ pageLoading
    /\ currentUrl' = url
    /\ checkLoginStatus(url)
    /\ checkSuccess(url)
    /\ LogSuccess(url)
    /\ UNCHANGED <<delivered, pc, browser, window, ipcListening, codeVerifier, fetchQueue,
                   cleanups, outcome, authNavIssued, fetchStarts, closedBy, closedPending,
                   ioOk, forcedBy, routerVars, managerVars, variantVars>>

\* webContents 'did-navigate-in-page'
DidNavigateInPage(url) ==
    /\ pageLoading
    /\ currentUrl' = url
    /\ checkSuccess(url)
    /\ LogSuccess(url)
    /\ UNCHANGED <<delivered, pc, browser, window, ipcListening, codeVerifier, timers, fetchQueue,
                   cleanups, outcome, authNavIssued, fetchStarts, closedBy, closedPending,
                   ioOk, forcedBy, routerVars, managerVars, variantVars>>

\* the setTimeout callback of checkLoginStatus
LoginTimerFires ==
    /\ timers > 0
    /\ timers' = timers - 1
    /\ IF window /\ currentUrl # "" /\ ~includes(currentUrl, "streamlabs")
       THEN forceNavigateAuth /\ forcedBy' = forcedBy \cup {"timer"}
       ELSE UNCHANGED <<authNavIssued, forcedBy>>
    /\ UNCHANGED <<delivered, pc, browser, window, ipcListening, tokenFetchStarted, codeVerifier,
                   currentUrl, saveQueue, fetchQueue, cleanups, outcome, firstSuccess, laterSuccess,
                   fetchStarts, closedBy, closedPending,
                   ioOk, routerVars, managerVars, variantVars>>

\* ipcMain 'log-console' -> logHandler
LogConsoleIpc(sender, message) ==
    /\ ipcListening
    /\ sender = "auth" => pageLoading
    /\ IF sender = "auth" /\ window /\ message = "TRIGGER_STREAMLABS_AUTH"
       THEN forceNavigateAuth /\ forcedBy' = forcedBy \cup {"manual"}
       ELSE UNCHANGED <<authNavIssued, forcedBy>>
    /\ UNCHANGED <<delivered, pc, browser, window, ipcListening, tokenFetchStarted, codeVerifier,
                   currentUrl, timers, saveQueue, fetchQueue, cleanups, outcome,
                   firstSuccess, laterSuccess, fetchStarts, closedBy, closedPending,
                   ioOk, routerVars, managerVars, variantVars>>

\* ipcMain 'fetch-result' -> resultHandler
FetchResultIpc(sender, n) ==
    /\ ipcListening
    /\ sender = "auth" => pageLoading
    /\ IF sender = "auth" /\ window
       THEN handleFetchResult(n)
       ELSE UNCHANGED <<outcome, cleanups, delivered>>
    /\ UNCHANGED <<pc, browser, window, ipcListening, tokenFetchStarted, codeVerifier,
                   currentUrl, timers, saveQueue, fetchQueue, authNavIssued,
                   firstSuccess, laterSuccess, fetchStarts, closedBy, closedPending,
                   ioOk, forcedBy, routerVars, managerVars, variantVars>>

\* saveCookies() of checkSuccess finished (ok: the jar was written, ~ok: reading the
\* session cookies or writing the file failed): executeTokenFetch(code) runs up to its await
SaveCookiesDone(ok) ==
    /\ saveQueue # <<>>
    /\ Len(fetchStarts) < MaxPending
    /\ saveQueue' = saveSettled(saveQueue)
    /\ ioOk' = ok
    /\ IF ~ok /\ ~cookieErrorCaught
       THEN UNCHANGED <<fetchStarts, fetchQueue, cleanups, delivered, outcome>>
       ELSE /\ fetchStarts' = Append(fetchStarts, Head(saveQueue))
            /\ IF codeVerifier = ""
               THEN /\ Settle(NO_CODE_VERIFIER)
                    /\ UNCHANGED <<fetchQueue, cleanups, delivered>>
               ELSE IF window
                    THEN /\ fetchQueue' = Append(fetchQueue, Head(saveQueue))
                         /\ UNCHANGED <<outcome, cleanups, delivered>>
                    \* this.window is null: result is undefined, handleFetchResult(undefined)
                    \* throws inside the try, the catch calls handleFetchResult({success: false})
                    ELSE /\ handleFetchResult("js_error")
                         /\ UNCHANGED fetchQueue
    /\ UNCHANGED <<pc, browser, window, ipcListening, tokenFetchStarted, codeVerifier,
                   currentUrl, timers, authNavIssued, firstSuccess, laterSuccess, closedBy, closedPending,
                   forcedBy, routerVars, managerVars, variantVars>>

\* executeJavaScript resolved with what the injected script returned
ExchangeReturns(n) ==
    /\ fetchQueue # <<>>
    /\ browser = "open"
    /\ fetchQueue' = Tail(fetchQueue)
    /\ handleFetchResult(n)
    /\ UNCHANGED <<pc, browser, window, ipcListening, tokenFetchStarted, codeVerifier,
                   currentUrl, timers, saveQueue, authNavIssued, firstSuccess, laterSuccess,
                   fetchStarts, closedBy, closedPending,
                   ioOk, forcedBy, routerVars, managerVars, variantVars>>

\* executeJavaScript rejected: the catch block of executeTokenFetch
ExchangeThrows ==
    /\ fetchQueue # <<>>
    /\ fetchQueue' = Tail(fetchQueue)
    /\ handleFetchResult("js_error")
    /\ UNCHANGED <<pc, browser, window, ipcListening, tokenFetchStarted, codeVerifier,
                   currentUrl, timers, saveQueue, authNavIssued, firstSuccess, laterSuccess,
                   fetchStarts, closedBy, closedPending,
                   ioOk, forcedBy, routerVars, managerVars, variantVars>>

\* the page is gone and the promise of executeJavaScript never settles
ExchangeLost ==
    /\ fetchQueue # <<>>
    /\ browser # "open"
    /\ fetchQueue' = Tail(fetchQueue)
    /\ UNCHANGED <<delivered, pc, browser, window, ipcListening, tokenFetchStarted, codeVerifier,
                   currentUrl, timers, saveQueue, cleanups, outcome, authNavIssued,
                   firstSuccess, laterSuccess, fetchStarts, closedBy, closedPending,
                   ioOk, forcedBy, routerVars, managerVars, variantVars>>

\* cleanup(): its saveCookies() finished, well or not; close the window if there still is one
CleanupSaveDone(ok) ==
    /\ cleanups > 0
    /\ cleanups' = cleanups - 1
    /\ ioOk' = ok
    /\ IF window /\ (ok \/ cookieErrorCaught)
       THEN /\ browser' = "closing"
            /\ window' = FALSE
            /\ closedBy' = "cleanup"
       ELSE UNCHANGED <<browser, window, closedBy>>
    /\ UNCHANGED <<delivered, pc, ipcListening, tokenFetchStarted, codeVerifier, currentUrl, timers,
                   saveQueue, fetchQueue, outcome, authNavIssued, firstSuccess, laterSuccess,
                   fetchStarts, closedPending,
                   forcedBy, routerVars, managerVars, variantVars>>

\* BrowserWindow 'closed' after window.close()
ClosedEvent ==
    /\ browser = "closing"
    /\ closed
    /\ UNCHANGED <<delivered, pc, tokenFetchStarted, codeVerifier, timers, saveQueue,
                   fetchQueue, cleanups, authNavIssued, firstSuccess, laterSuccess, fetchStarts,
                   closedBy, closedPending,
                   ioOk, forcedBy, routerVars, managerVars, variantVars>>

\* BrowserWindow 'closed' because the user closed the window
UserClosesWindow ==
    /\ browser = "open"
    /\ closed
    /\ closedBy' = "user"
    /\ closedPending' = (outcome = <<>>)
    /\ UNCHANGED <<delivered, pc, tokenFetchStarted, codeVerifier, timers, saveQueue,
                   fetchQueue, cleanups, authNavIssued, firstSuccess, laterSuccess, fetchStarts,
                   ioOk, forcedBy, routerVars, managerVars, variantVars>>

AuthNext ==
    \/ FindToken
    \/ CreateWindowThrows
    \/ \E ok \in BOOLEAN : LoadCookiesDone(ok)
    \/ LoadUrlResolved
    \/ LoadUrlRejected
    \/ \E url \in Urls : DidNavigate(url)
    \/ \E url \in Urls : DidNavigateInPage(url)
    \/ LoginTimerFires
    \/ \E s \in Senders, m \in LogMessages : LogConsoleIpc(s, m)
    \/ \E s \in Senders, n \in IpcResults : FetchResultIpc(s, n)
    \/ \E ok \in BOOLEAN : SaveCookiesDone(ok)
    \/ \E n \in ScriptResults : ExchangeReturns(n)
    \/ ExchangeThrows
    \/ ExchangeLost
    \/ \E ok \in BOOLEAN : CleanupSaveDone(ok)
    \/ ClosedEvent
    \/ UserClosesWindow

(***************************************************************************)
(* IpcMessageRouter                                                        *)
(***************************************************************************)
IpcMessageType == {"WINDOW_CONTEXT", "USER_ACTION", "LOG_EVENT", "RAW_STRING"}

\* two handler functions a caller may register; h2 throws when invoked
HandlerIds == {"h1", "h2"}

NoHandler == "none"

handlerThrows(h) == h = "h2"

(***************************************************************************)
(* Wire texts, and what JSON.parse makes of each.                          *)
(*   not-json    not-json                                                  *)
(*   empty       (the empty string)                                        *)
(*   truncated   {"type":"USER_ACTION"                                     *)
(*   number      42                                                        *)
(*   null        null                                                      *)
(*   string      "hello"                                                   *)
(*   array       []                                                        *)
(*   user        {"type":"USER_ACTION","payload":{"action":"TRIGGER_STREAMLABS_AUTH","timestamp":1}} *)
(*   log_full    {"type":"LOG_EVENT","payload":{"level":"info","message":"m"},"id":"m1","timestamp":5} *)
(*   ctx_falsy   {"type":"WINDOW_CONTEXT","payload":null,"id":"","timestamp":0} *)
(*   raw_json    {"type":"RAW_STRING","payload":{"data":"x","receivedAt":1}} *)
(*   bogus_type  {"type":"BOGUS","payload":{}}                             *)
(*   no_payload  {"type":"LOG_EVENT"}                                      *)
(*   no_type     {"payload":{}}                                            *)
(*   num_type    {"type":7,"payload":{}}                                   *)
(*   tiktok      {"event":"setUniqueId","uniqueId":"u1","roomId":"r1"}     *)
(***************************************************************************)
NonJsonTexts == {"not-json", "empty", "truncated"}

JsonTexts == {"number", "null", "string", "array", "user", "log_full", "ctx_falsy",
              "raw_json", "bogus_type", "no_payload", "no_type", "num_type", "tiktok"}

WireTexts == NonJsonTexts \cup JsonTexts

NoData == "<no data>"

\* the own properties a parsed JSON value has that the router reads:
\* type ("" when absent), whether it is a string, whether the key payload exists,
\* payload.data, id ("" when absent or empty), timestamp (0 when absent or 0)
Json(type, typeIsString, hasPayload, data, id, timestamp) ==
    [type |-> type, typeIsString |-> typeIsString, hasPayload |-> hasPayload,
     data |-> data, id |-> id, timestamp |-> timestamp]

JsonValue ==
    [t \in JsonTexts |->
        CASE t = "user"       -> Json("USER_ACTION", TRUE, TRUE, NoData, "", 0)
          [] t = "log_full"   -> Json("LOG_EVENT", TRUE, TRUE, NoData, "m1", 5)
          [] t = "ctx_falsy"  -> Json("WINDOW_CONTEXT", TRUE, TRUE, NoData, "", 0)
          [] t = "raw_json"   -> Json("RAW_STRING", TRUE, TRUE, "x", "", 0)
          [] t = "bogus_type" -> Json("BOGUS", TRUE, TRUE, NoData, "", 0)
          [] t = "no_payload" -> Json("LOG_EVENT", TRUE, FALSE, NoData, "", 0)
          [] t = "no_type"    -> Json("", FALSE, TRUE, NoData, "", 0)
          [] t = "num_type"   -> Json("7", FALSE, TRUE, NoData, "", 0)
          \* number, null, string, array, tiktok: no type, no payload once spread
          [] OTHER            -> Json("", FALSE, FALSE, NoData, "", 0)]

\* safeJsonParse(json).success
safeJsonParse(text) == text \in JsonTexts

\* Date.now() and generateId() at the time of a dispatch
Clock == {1700}

GenIds == {"1700-k3x9q"}

\* enrichMessage(message)
enrichMessage(m, now, gid) ==
    [m EXCEPT
        !.timestamp = IF options.autoTimestamp /\ m.timestamp = 0 THEN now ELSE m.timestamp,
        !.id = IF options.autoGenerateId /\ m.id = "" THEN gid ELSE m.id]

\* isValidIpcMessage without the test for the payload key
isValidIpcMessage_noPayloadTest(m) ==
    /\ m.type # "" /\ m.typeIsString
    /\ m.type \in IpcMessageType

\* isValidIpcMessage(message)
isValidIpcMessage(m) ==
    /\ m.type # "" /\ m.typeIsString
    /\ m.type \in IpcMessageType
    /\ m.hasPayload

Call(fn, h, m) == [fn |-> fn, handler |-> h, msg |-> m]

\* processMessage calling the handler outside any try / catch
catchesHandlerError_absent == FALSE

\* processMessage: an exception of the handler is caught and logged
catchesHandlerError == TRUE

\* processMessage(message): the callbacks invoked, and whether it throws
processMessage(m) ==
    IF ~isValidIpcMessage(m)
    THEN [calls |-> <<Call("onParseError", NoHandler, m)>>, threw |-> FALSE]
    ELSE IF handlers[m.type] = NoHandler
         THEN [calls |-> <<Call("onUnhandledMessage", NoHandler, m)>>, threw |-> FALSE]
         ELSE [calls |-> <<Call("handler", handlers[m.type], m)>>,
               threw |-> handlerThrows(handlers[m.type]) /\ ~catchesHandlerError]

\* handleRawString: the payload.data of the synthesized message
rawData(text) == text

\* handleRawString(data)
handleRawString(text, now, gid) ==
    processMessage(Json("RAW_STRING", TRUE, TRUE, rawData(text), gid, now))

\* handle() reporting unparsable text through onParseError instead of wrapping it
handle_reportsOnly(text, now, gid) ==
    IF safeJsonParse(text)
    THEN processMessage(enrichMessage(JsonValue[text], now, gid))
    ELSE [calls |-> <<Call("onParseError", NoHandler,
                           Json("", FALSE, FALSE, NoData, "", 0))>>,
          threw |-> FALSE]

\* handle() wrapping a message that failed validation as a raw string as well
handle_wrapsInvalid(text, now, gid) ==
    IF safeJsonParse(text)
    THEN LET r == processMessage(enrichMessage(JsonValue[text], now, gid))
         IN  IF isValidIpcMessage(JsonValue[text])
             THEN r
             ELSE [calls |-> r.calls \o handleRawString(text, now, gid).calls,
                   threw |-> r.threw]
    ELSE handleRawString(text, now, gid)

\* handle(rawMessage)
handle(text, now, gid) ==
    IF safeJsonParse(text)
    THEN processMessage(enrichMessage(JsonValue[text], now, gid))
    ELSE handleRawString(text, now, gid)

(***************************************************************************)
(* handleMultiple(rawMessages, delimiter).  A text is represented by the   *)
(* fields its delimiter separates, which is what split(delimiter) returns; *)
(* "blank" is a field that trims to nothing (empty or whitespace only).    *)
(***************************************************************************)
SegmentTexts == {"blank", "not-json", "user", "no_type"}

MultiTexts == UNION {[1..n -> SegmentTexts] : n \in 1..MaxSegments}

\* a filter that keeps every field, blank or not
isBlank_never(m) == FALSE

\* m.trim().length > 0 fails
isBlank(m) == m = "blank"

keepSegment(m) == ~isBlank(m)

\* rawMessages.split(delimiter).filter(m => m.trim().length > 0)
splitSegments(fields) == SelectSeq(fields, keepSegment)

\* for (const msg of messages) this.handle(msg): an exception ends the loop
RECURSIVE forEachHandle(_, _, _)
forEachHandle(segs, now, gid) ==
    IF segs = <<>>
    THEN [log |-> <<>>, threw |-> FALSE]
    ELSE LET r == handle(Head(segs), now, gid)
             entry == [text |-> Head(segs), calls |-> r.calls]
         IN  IF r.threw
             THEN [log |-> <<entry>>, threw |-> TRUE]
             ELSE LET rest == forEachHandle(Tail(segs), now, gid)
                  IN  [log |-> <<entry>> \o rest.log, threw |-> rest.threw]

\* handleMultiple(rawMessages, delimiter)
handleMultiple(fields, now, gid) == forEachHandle(splitSegments(fields), now, gid)

\* the handler of one processMessage call threw (and was caught or not)
handlerThrew(cs) == \E i \in 1..Len(cs) : cs[i].fn = "handler" /\ handlerThrows(cs[i].handler)

\* registerHandlers spreading in the other order: { ...handlers, ...this.handlers }
mergeHandlers_keepOld(old, new) ==
    [t \in IpcMessageType |->
        IF old[t] # NoHandler THEN old[t]
        ELSE IF t \in DOMAIN new THEN new[t] ELSE NoHandler]

\* registerHandlers: { ...this.handlers, ...handlers }
mergeHandlers(old, new) ==
    [t \in IpcMessageType |-> IF t \in DOMAIN new THEN new[t] ELSE old[t]]

RouterInit ==
    /\ handlers = [t \in IpcMessageType |-> NoHandler]
    /\ options \in [autoGenerateId : BOOLEAN, autoTimestamp : BOOLEAN]
    /\ lastEvent = [t \in IpcMessageType |-> NoHandler]
    /\ wire = <<>>
    /\ calls = <<>>
    /\ threw = FALSE
    /\ caught = FALSE
    /\ multi = <<>>
    /\ multiLog = <<>>
    /\ multiThrew = FALSE

\* a registration starts a new observation of the router
NewObservation ==
    /\ wire' = <<>> /\ calls' = <<>> /\ threw' = FALSE
    /\ multi' = <<>> /\ multiLog' = <<>> /\ multiThrew' = FALSE
    /\ UNCHANGED caught

\* on(type, handler)
On(t, h) ==
    /\ handlers' = [handlers EXCEPT ![t] = h]
    /\ lastEvent' = [lastEvent EXCEPT ![t] = h]
    /\ NewObservation
    /\ UNCHANGED <<options, authVars, managerVars, variantVars>>

\* off(type)
Off(t) ==
    /\ handlers' = [handlers EXCEPT ![t] = NoHandler]
    /\ lastEvent' = [lastEvent EXCEPT ![t] = NoHandler]
    /\ NewObservation
    /\ UNCHANGED <<options, authVars, managerVars, variantVars>>

\* registerHandlers(handlers)
RegisterHandlers(new) ==
    /\ handlers' = mergeHandlers(handlers, new)
    /\ lastEvent' = [t \in IpcMessageType |-> IF t \in DOMAIN new THEN new[t] ELSE lastEvent[t]]
    /\ NewObservation
    /\ UNCHANGED <<options, authVars, managerVars, variantVars>>

\* handle(rawMessage)
Handle(text, now, gid) ==
    /\ wire' = <<text>>
    /\ calls' = handle(text, now, gid).calls
    /\ threw' = handle(text, now, gid).threw
    /\ caught' = (caught \/ handlerThrew(handle(text, now, gid).calls))
    /\ multi' = <<>> /\ multiLog' = <<>> /\ multiThrew' = FALSE
    /\ UNCHANGED <<handlers, options, lastEvent, authVars, managerVars, variantVars>>

\* handleMultiple(rawMessages, delimiter)
HandleMultiple(fields, now, gid) ==
    /\ multi' = fields
    /\ multiLog' = handleMultiple(fields, now, gid).log
    /\ multiThrew' = handleMultiple(fields, now, gid).threw
    /\ caught' = (caught \/ \E i \in 1..Len(multiLog') : handlerThrew(multiLog'[i].calls))
    /\ wire' = <<>> /\ calls' = <<>> /\ threw' = FALSE
    /\ UNCHANGED <<handlers, options, lastEvent, authVars, managerVars, variantVars>>

RouterNext ==
    \/ \E t \in IpcMessageType, h \in HandlerIds : On(t, h)
    \/ \E t \in IpcMessageType : Off(t)
    \/ \E S \in SUBSET IpcMessageType : \E new \in [S -> HandlerIds] : RegisterHandlers(new)
    \/ \E text \in WireTexts, now \in Clock, gid \in GenIds : Handle(text, now, gid)

\* a router that receives its input through handleMultiple
RouterMultiNext ==
    \/ \E t \in IpcMessageType, h \in HandlerIds : On(t, h)
    \/ \E t \in IpcMessageType : Off(t)
    \/ \E fields \in MultiTexts, now \in Clock, gid \in GenIds : HandleMultiple(fields, now, gid)

(***************************************************************************)
(* AuthManager and tokens.json                                             *)
(***************************************************************************)
\* the keys of an auth record that the model follows
Keys == {"oauth_token", "uniqueId", "roomId"}

\* a key the object does not have
Absent == "<absent>"

Obj(token, uniqueId, roomId) ==
    [oauth_token |-> token, uniqueId |-> uniqueId, roomId |-> roomId]

NoKeys == Obj(Absent, Absent, Absent)

\* a JavaScript value: undefined, null, or an object with some of the keys
Undefined == [kind |-> "undefined", obj |-> NoKeys]

Null == [kind |-> "null", obj |-> NoKeys]

Object(o) == [kind |-> "object", obj |-> o]

\* what findToken() can resolve with: result.data.data of the exchange response
AuthDatas ==
    {Undefined, Null,
     Object(Obj("T1", Absent, Absent)),
     Object(Obj("T2", "u2", Absent)),
     Object(Obj(Absent, "u2", Absent))}

\* what findToken() can reject with
AuthErrors == {"Window closed by user", "Fetch failed"}

TypeErrorMessage == "TypeError"

\* JSON.stringify(value, null, 2): a text, or no string at all for undefined
JSONstringify(v) ==
    IF v.kind = "undefined"
    THEN [isString |-> FALSE, parses |-> FALSE, value |-> Undefined]
    ELSE [isString |-> TRUE, parses |-> TRUE, value |-> v]

\* a text JSON.parse throws on
GarbageText == [isString |-> TRUE, parses |-> FALSE, value |-> Undefined]

MissingFile == [exists |-> FALSE, text |-> GarbageText]

File(text) == [exists |-> TRUE, text |-> text]

\* the contents tokens.json may have before the first call
InitialFiles ==
    {MissingFile,
     File(GarbageText),
     File(JSONstringify(Null)),
     File(JSONstringify(Object(Obj("T0", Absent, "r0")))),
     File(JSONstringify(Object(Obj("", Absent, "r0")))),
     File(JSONstringify(Object(Obj(Absent, "u0", Absent))))}

\* a cache test that accepts any object, token or not
hasToken_anyObject(v) == v.kind = "object"

\* saved && saved.oauth_token
hasToken(v) == v.kind = "object" /\ v.obj.oauth_token \notin {Absent, ""}

\* existsSync, readFileSync and JSON.parse inside try / catch, then the token test
cacheHit(file) == file.exists /\ file.text.parses /\ hasToken(file.text.value)

cachedToken(file) == file.text.value.obj.oauth_token

\* a save that leaves tokens.json as it was
fileAfterSave_skipped(file, data) == file

\* fs.writeFileSync(tokenPath, JSON.stringify(authData, null, 2))
fileAfterSave(file, data) == File(JSONstringify(data))

\* fs.writeFileSync throws on data that is not a string
writeThrows(data) == ~JSONstringify(data).isString

\* authData.oauth_token throws on null
tokenReadThrows(data) == data.kind \in {"undefined", "null"}

\* a caller-side wrapper replacing the error
awaitRejection_replaced(err) == "Unknown error during login"

\* await auth.findToken(): a rejection leaves retrieveToken with the same error
awaitRejection(err) == err

\* crypto.randomBytes(64).toString('hex'): a value not drawn before
generateCodeVerifier(mgrs) == Len(mgrs) + 1

\* sha256(verifier) in base64url: a one-way image of the verifier
generateCodeChallenge(verifier) == <<"S256", verifier>>

\* an authorization URL whose challenge is the verifier untransformed
getAuthUrl_plainChallenge(verifier) ==
    [endpoint |-> "https://streamlabs.com/m/login", force_verify |-> "1",
     external |-> "mobile", skip_splash |-> "1", tiktok |-> "1",
     code_challenge |-> <<"plain", verifier>>]

\* getAuthUrl() of the AuthManager constructed with this verifier:
\* API_ENDPOINTS.LOGIN_URL and the query parameters
getAuthUrl(verifier) ==
    [endpoint |-> "https://streamlabs.com/m/login", force_verify |-> "1",
     external |-> "mobile", skip_splash |-> "1", tiktok |-> "1",
     code_challenge |-> generateCodeChallenge(verifier)]

\* the query of the exchange request of a StreamlabsAuth holding this verifier
exchangeQuery(code, verifier) == [code |-> code, code_verifier |-> verifier]

RtCall(m, phase, hit, value, before, found) ==
    [mgr |-> m, phase |-> phase, hit |-> hit, value |-> value, before |-> before,
     savesBefore |-> Len(saves), findToken |-> found]

\* retrieveToken() up to its first suspension, on instance m of mgrs
retrieveToken(m, mgrs) ==
    IF cacheHit(tokenFile)
    THEN /\ rtCalls' = Append(rtCalls,
                RtCall(m, "resolved", TRUE, cachedToken(tokenFile), tokenFile, "none"))
         /\ UNCHANGED attempts
    ELSE /\ rtCalls' = Append(rtCalls, RtCall(m, "awaiting", FALSE, "", tokenFile, "pending"))
         /\ attempts' = Append(attempts,
                [call |-> Len(rtCalls) + 1, mgr |-> m, verifier |-> mgrs[m],
                 authUrl |-> getAuthUrl(mgrs[m])])

ManagerInit ==
    /\ tokenFile \in InitialFiles
    /\ managers = <<>>
    /\ rtCalls = <<>>
    /\ attempts = <<>>
    /\ saves = <<>>

\* no AuthManager is in use
ManagerIdle == ManagerInit /\ tokenFile = MissingFile

\* new AuthManager()
NewAuthManager ==
    /\ Len(managers) < MaxManagers
    /\ managers' = Append(managers, generateCodeVerifier(managers))
    /\ UNCHANGED <<tokenFile, rtCalls, attempts, saves, authVars, routerVars, variantVars>>

\* authManager.retrieveToken() on an existing instance
RetrieveToken(m) ==
    /\ m <= Len(managers)
    /\ Len(rtCalls) < MaxCalls
    /\ retrieveToken(m, managers)
    /\ UNCHANGED <<tokenFile, managers, saves, authVars, routerVars, variantVars>>

\* the 'auth:login' handler: new AuthManager() and retrieveToken() on it
AuthLogin ==
    /\ Len(managers) < MaxManagers
    /\ Len(rtCalls) < MaxCalls
    /\ managers' = Append(managers, generateCodeVerifier(managers))
    /\ retrieveToken(Len(managers) + 1, managers')
    /\ UNCHANGED <<tokenFile, saves, authVars, routerVars, variantVars>>

\* await auth.findToken() returns authData: save it and return its token
FindTokenResolves(c, data) ==
    /\ c <= Len(rtCalls)
    /\ rtCalls[c].phase = "awaiting"
    /\ IF writeThrows(data)
       THEN /\ rtCalls' = [rtCalls EXCEPT ![c].phase = "rejected",
                                          ![c].value = TypeErrorMessage,
                                          ![c].findToken = "resolved"]
            /\ UNCHANGED <<tokenFile, saves>>
       ELSE /\ tokenFile' = fileAfterSave(tokenFile, data)
            /\ saves' = Append(saves, [call |-> c, before |-> tokenFile, data |-> data,
                                       after |-> tokenFile'])
            /\ rtCalls' = [rtCalls EXCEPT
                    ![c].phase = IF tokenReadThrows(data) THEN "rejected" ELSE "resolved",
                    ![c].value = IF tokenReadThrows(data) THEN TypeErrorMessage
                                 ELSE data.obj.oauth_token,
                    ![c].findToken = "resolved"]
    /\ UNCHANGED <<managers, attempts, authVars, routerVars, variantVars>>

\* await auth.findToken() throws
FindTokenRejects(c, err) ==
    /\ c <= Len(rtCalls)
    /\ rtCalls[c].phase = "awaiting"
    /\ rtCalls' = [rtCalls EXCEPT ![c].phase = "rejected",
                                  ![c].value = awaitRejection(err),
                                  ![c].findToken = err]
    /\ UNCHANGED <<tokenFile, managers, attempts, saves, authVars, routerVars, variantVars>>

ManagerNext ==
    \/ NewAuthManager
    \/ \E m \in 1..MaxManagers : RetrieveToken(m)
    \/ AuthLogin
    \/ \E c \in 1..MaxCalls, data \in AuthDatas : FindTokenResolves(c, data)
    \/ \E c \in 1..MaxCalls, err \in AuthErrors : FindTokenRejects(c, err)

(***************************************************************************)
(* StreamlabsAuth of the webview build.  The page reports its location by  *)
(* WINDOW_CONTEXT messages; everything checkSuccess starts runs to its end *)
(* before the next message, since saveCookies and evaluateScript do not    *)
(* suspend.                                                                *)
(***************************************************************************)
CookieJars == {"absent", "stored", "corrupt"}

WebviewInit ==
    webview \in {[pc |-> "idle", codeVerifier |-> v, url |-> "", order |-> <<>>,
                  timers |-> <<>>, forced |-> <<>>, tokenFetchStarted |-> FALSE,
                  fetched |-> "none", outcome |-> <<>>] : v \in {"", "verifier"}}

\* findToken() -> createWindow(): the webview is built with the login URL, the IPC
\* callback and the USER_ACTION handler are registered, then loadCookies() runs
WebviewFindToken(jar) ==
    /\ webview.pc = "idle"
    /\ webview' = [webview EXCEPT !.pc = "open", !.order = <<"withUrl(login)", jar>>]
    /\ UNCHANGED <<authVars, routerVars, managerVars, child, ipcMain, bridge, config>>

\* executeTokenFetch: what handleFetchResult is handed when the fetch of the injected
\* async script yields n. this.webview.evaluateScript(fetchScript) is called without
\* await and returns before the page has run the fetch: its value is never n. Reading
\* .success of undefined throws into the catch block ({success: false, error}); a
\* returned promise object has no success property and fails the same test.
evaluateScript(n) == "js_error"

\* a WINDOW_CONTEXT message: checkLoginStatus(url), checkSuccess(url) and, for the
\* first success URL, saveCookies, executeTokenFetch, handleFetchResult and cleanup
\* (n: what the exchange fetch of the page yields)
WebviewContext(url, n) ==
    /\ webview.pc # "idle"
    /\ LET starts == IsSuccessUrl(url) /\ ~webview.tokenFetchStarted
           handed == evaluateScript(n)
           settles == IF webview.codeVerifier = "" THEN <<NO_CODE_VERIFIER>>
                      ELSE IF webview.pc = "open" /\ resultOk(Results[handed])
                           THEN <<Resolved(handed)>>
                           ELSE <<FETCH_FAILED(handed)>>
       IN webview' = [webview EXCEPT
               !.url = url,
               !.timers = IF loggedIn(url) /\ Len(@) < MaxTimers THEN Append(@, url) ELSE @,
               !.tokenFetchStarted = @ \/ starts,
               !.fetched = IF starts /\ webview.codeVerifier # "" THEN n ELSE @,
               !.outcome = IF starts /\ @ = <<>> THEN settles ELSE @,
               !.pc = IF starts /\ webview.codeVerifier # "" THEN "done" ELSE @]
    /\ UNCHANGED <<authVars, routerVars, managerVars, child, ipcMain, bridge, config>>

\* a USER_ACTION message with action TRIGGER_STREAMLABS_AUTH: forceNavigateAuth()
WebviewUserAction ==
    /\ webview.pc # "idle"
    /\ webview' = [webview EXCEPT
            !.forced = IF webview.pc = "open" THEN [by |-> "manual", at |-> webview.url]
                       ELSE @]
    /\ UNCHANGED <<authVars, routerVars, managerVars, child, ipcMain, bridge, config>>

\* the setTimeout callback of checkLoginStatus(url): it tests the url it was armed with
WebviewTimerFires ==
    /\ webview.timers # <<>>
    /\ webview' = [webview EXCEPT
            !.timers = Tail(@),
            !.forced = IF ~includes(Head(webview.timers), "streamlabs") /\ webview.pc = "open"
                       THEN [by |-> "timer", at |-> webview.url]
                       ELSE @]
    /\ UNCHANGED <<authVars, routerVars, managerVars, child, ipcMain, bridge, config>>

WebviewNext ==
    \/ \E jar \in CookieJars : WebviewFindToken(jar)
    \/ \E url \in Urls, n \in ScriptResults : WebviewContext(url, n)
    \/ WebviewUserAction
    \/ WebviewTimerFires

(***************************************************************************)
(* StreamlabsAuth of electron-login.ts, the child process: the path from a *)
(* success URL to the message sent to the parent process.                  *)
(***************************************************************************)
ChildInit ==
    child \in {[pc |-> "ready", codeVerifier |-> v, url |-> "login",
                tokenFetchStarted |-> FALSE, saving |-> <<>>, fetching |-> <<>>,
                sent |-> <<>>, cleanups |-> 0, ipcActed |-> {}] : v \in {"", "verifier"}}

\* webContents 'did-navigate-in-page': checkSuccess(url)
ChildDidNavigateInPage(url) ==
    /\ child.pc = "ready"
    /\ LET starts == IsSuccessUrl(url) /\ ~child.tokenFetchStarted
       IN child' = [child EXCEPT
               !.url = url,
               !.tokenFetchStarted = @ \/ starts,
               !.sent = IF starts THEN Append(@, "login-success") ELSE @,
               !.saving = IF starts THEN Append(@, UrlCode[url]) ELSE @]
    /\ UNCHANGED <<authVars, routerVars, managerVars, webview, ipcMain, bridge, config>>

\* saveCookies() of checkSuccess finished: executeTokenFetch(code) runs up to its await
ChildSaveCookiesDone ==
    /\ child.pc = "ready"
    /\ child.saving # <<>>
    /\ child' = [child EXCEPT
            !.saving = Tail(@),
            !.fetching = IF child.codeVerifier = "" THEN @
                         ELSE Append(@, Head(child.saving))]
    /\ UNCHANGED <<authVars, routerVars, managerVars, webview, ipcMain, bridge, config>>

\* executeJavaScript settled: handleFetchResult sends one message to the parent
\* process and arms the cleanup timer
ChildExchangeReturns(n) ==
    /\ child.pc = "ready"
    /\ child.fetching # <<>>
    /\ child' = [child EXCEPT
            !.fetching = Tail(@),
            !.sent = Append(@, IF resultOk(Results[n]) /\ Results[n].ddata = "token"
                               THEN "token-success" ELSE "error"),
            !.cleanups = Inc(@, MaxCleanups)]
    /\ UNCHANGED <<authVars, routerVars, managerVars, webview, ipcMain, bridge, config>>

\* cleanup(): saveCookies(), then app.quit() and process.exit(0)
ChildCleanup ==
    /\ child.pc = "ready"
    /\ child.cleanups > 0
    /\ child' = [child EXCEPT !.pc = "exited", !.cleanups = @ - 1]
    /\ UNCHANGED <<authVars, routerVars, managerVars, webview, ipcMain, bridge, config>>

\* ipcMain.on('log-console'): any renderer's TRIGGER_STREAMLABS_AUTH message calls
\* forceNavigateAuth(); the listener reads neither event.sender nor this.window
ChildLogConsoleIpc(sender, message) ==
    /\ child.pc = "ready"
    /\ child' = [child EXCEPT
            !.ipcActed = IF message = "TRIGGER_STREAMLABS_AUTH"
                         THEN @ \cup {<<"log-console", sender>>} ELSE @]
    /\ UNCHANGED <<authVars, routerVars, managerVars, webview, ipcMain, bridge, config>>

\* ipcMain.on('fetch-result'): handleFetchResult(result) for any renderer's message
\* (result.data.data absent: reading oauth_token throws out of the listener before
\* anything is sent)
ChildFetchResultIpc(sender, n) ==
    /\ child.pc = "ready"
    /\ Len(child.sent) <= MaxPending
    /\ IF resultOk(Results[n]) /\ Results[n].ddata # "token"
       THEN UNCHANGED child
       ELSE child' = [child EXCEPT
               !.sent = Append(@, IF resultOk(Results[n]) THEN "token-success" ELSE "error"),
               !.cleanups = Inc(@, MaxCleanups),
               !.ipcActed = @ \cup {<<"fetch-result", sender>>}]
    /\ UNCHANGED <<authVars, routerVars, managerVars, webview, ipcMain, bridge, config>>

ChildNext ==
    \/ \E url \in Urls : ChildDidNavigateInPage(url)
    \/ ChildSaveCookiesDone
    \/ \E n \in ResultNames : ChildExchangeReturns(n)
    \/ ChildCleanup
    \/ \E sender \in Senders, message \in LogMessages : ChildLogConsoleIpc(sender, message)
    \/ \E sender \in Senders, n \in IpcResults : ChildFetchResultIpc(sender, n)

(***************************************************************************)
(* createIpcHandler: the wrapper registered with ipcMain.handle            *)
(***************************************************************************)
Channels == {"auth:login", "stream:info"}

\* the options given to createIpcHandler: requireStreamApi set, getStreamApi given
HandlerOptions == [requireStreamApi : BOOLEAN, getStreamApi : BOOLEAN]

\* what the wrapped handler does when called: return a value, construct the
\* StreamAPI and return, throw an Error with a message, throw an Error with
\* an empty message, throw undefined (a promise rejected without a reason)
HandlerRuns == {"returns", "login", "throwsError", "throwsNoMessage", "throwsUndefined"}

\* the async function createIpcHandler passes to ipcMain.handle, for the stream
\* API being there (api) or null: whether the handler was invoked and what the
\* IPC caller gets ("rejected": the function threw)
wrapper(opts, api, run) ==
    IF opts.requireStreamApi /\ opts.getStreamApi /\ ~api
    THEN [invoked |-> FALSE, reply |-> "null"]
    ELSE [invoked |-> TRUE,
          reply |-> CASE run \in {"returns", "login"} -> "value"
                      [] run = "throwsError" -> "failure: message"
                      [] run = "throwsNoMessage" -> "failure: Unknown error during login"
                      \* error.message of undefined: TypeError in the catch block
                      [] run = "throwsUndefined" -> "rejected"]

\* what authManager.retrieveToken() settles with: the token of the auth data, or an
\* Error (every rejection of findToken and every exception of retrieveAuthData is one)
\* whose message may be empty
RetrieveOutcomes ==
    {[kind |-> "resolved", token |-> t, error |-> ""] : t \in {"T1", "T2"}}
        \cup {[kind |-> "rejected", token |-> "none", error |-> e] : e \in {"Fetch failed", ""}}

\* an 'auth:login' handler that drops the client when the login fails
authLogin_clearsOnFailure(client, rt) ==
    IF rt.kind = "resolved"
    THEN [success |-> TRUE, error |-> "", client |-> rt.token]
    ELSE [success |-> FALSE,
          error |-> IF rt.error # "" THEN rt.error ELSE "Unknown error during login",
          client |-> "none"]

\* the 'auth:login' handler: token = await retrieveToken(); streamAPI = new StreamAPI(token);
\* return {success: true}; an exception is caught (by the handler's own try / catch in the
\* webview build, by the createIpcHandler wrapper in the Electron build) and becomes
\* {success: false, error: error.message || 'Unknown error during login'}.
\* client: the token the stream API client holds ("none": streamAPI is null)
authLogin(client, rt) ==
    IF rt.kind = "resolved"
    THEN [success |-> TRUE, error |-> "", client |-> rt.token]
    ELSE [success |-> FALSE,
          error |-> IF rt.error # "" THEN rt.error ELSE "Unknown error during login",
          client |-> client]

IpcMainInit ==
    ipcMain = [streamAPI |-> FALSE, client |-> "none",
               registered |-> [c \in Channels |-> <<>>], last |-> <<>>, login |-> <<>>]

\* createIpcHandler(channel, handler, options)
CreateIpcHandler(channel, opts) ==
    /\ ipcMain.registered[channel] = <<>>
    /\ ipcMain' = [ipcMain EXCEPT !.registered[channel] = <<opts>>]
    /\ UNCHANGED <<authVars, routerVars, managerVars, child, webview, bridge, config>>

\* ipcRenderer.invoke(channel): the registered wrapper runs
Invoke(channel, run) ==
    /\ ipcMain.registered[channel] # <<>>
    /\ LET opts == ipcMain.registered[channel][1]
           r == wrapper(opts, ipcMain.streamAPI, run)
       IN ipcMain' = [ipcMain EXCEPT
               !.streamAPI = @ \/ (run = "login" /\ r.invoked),
               !.client = IF run = "login" /\ r.invoked THEN "T1" ELSE @,
               !.last = [channel |-> channel, options |-> opts, api |-> ipcMain.streamAPI,
                         run |-> run, invoked |-> r.invoked, reply |-> r.reply]]
    /\ UNCHANGED <<authVars, routerVars, managerVars, child, webview, bridge, config>>

\* the renderer invokes 'auth:login' as index.ts registers it: retrieveToken() settles
\* with rt and the handler answers
InvokeAuthLogin(rt) ==
    /\ LET r == authLogin(ipcMain.client, rt)
       IN ipcMain' = [ipcMain EXCEPT
               !.client = r.client,
               !.streamAPI = r.client # "none",
               !.login = <<[rt |-> rt, before |-> ipcMain.client, after |-> r.client,
                            success |-> r.success, error |-> r.error]>>]
    /\ UNCHANGED <<authVars, routerVars, managerVars, child, webview, bridge, config>>

IpcMainNext ==
    \/ \E c \in Channels, opts \in HandlerOptions : CreateIpcHandler(c, opts)
    \/ \E c \in Channels, run \in HandlerRuns : Invoke(c, run)
    \/ \E rt \in RetrieveOutcomes : InvokeAuthLogin(rt)

(***************************************************************************)
(* The webview host: class IpcMain of index.ts and the window.electronAPI  *)
(* bridge its preload script installs in the page.  Every message the      *)
(* bridge posts is the JSON.stringify of {channel, requestId, args}, so    *)
(* JSON.parse of handleMessage succeeds on it.                             *)
(***************************************************************************)
MaxRequests == 2

MaxDeliveries == 1

\* requestIdCounter values: 'req_' + (++requestIdCounter) + '_' + Date.now()
RequestIds == 1..MaxRequests

\* a channel setupIPC registers, and one it does not
BridgeChannels == {"stream:info", "stream:bogus"}

RegisteredChannels == {"stream:info"}

\* what the registered handler does when awaited: return a value, throw an Error with a
\* message, throw an Error with an empty message, throw undefined
HostRuns == {"returns", "throwsError", "throwsNoMessage", "throwsUndefined"}

\* IpcMain.handleMessage for a parsed request: the responses sendResponse sends, in order
handleMessage(channel, run) ==
    IF channel \notin RegisteredChannels
    THEN <<"no-handler">>
    ELSE CASE run = "returns" -> <<"result">>
           [] run = "throwsError" -> <<"error">>
           [] run = "throwsNoMessage" -> <<"unknown-error">>
           \* error.message of undefined throws inside the catch block; the outer
           \* catch logs 'Error parsing message' and nothing is sent
           [] run = "throwsUndefined" -> <<>>

\* a response or timer that settles the request whether or not it is still pending
settles_always(pending, id) == TRUE

\* pendingRequests.has(requestId): the test before a response or the timer settles
settles(pending, id) == id \in pending

\* window.__on_webview_message__(message) or the timeout callback for request id:
\* event is the kind of the response, or "timeout"
pageEvent(b, id, event) ==
    [b EXCEPT
        !.seen[id] = Append(@, event),
        !.pending = IF settles(b.pending, id) THEN @ \ {id} ELSE @,
        !.settled[id] = IF settles(b.pending, id)
                        THEN Append(@, CASE event = "result" -> "resolved"
                                         [] event = "timeout" -> "timeout"
                                         [] OTHER -> "rejected")
                        ELSE @]

BridgeInit ==
    bridge = [nextId |-> 0, pending |-> {}, timers |-> {}, toHost |-> <<>>, toPage |-> <<>>,
              seen |-> [i \in RequestIds |-> <<>>], settled |-> [i \in RequestIds |-> <<>>],
              handled |-> [i \in RequestIds |-> <<>>], sent |-> [i \in RequestIds |-> <<>>]]

\* window.electronAPI.invoke(channel, ...args)
BridgeInvoke(channel) ==
    /\ bridge.nextId < MaxRequests
    /\ LET id == bridge.nextId + 1
       IN bridge' = [bridge EXCEPT
               !.nextId = id,
               !.pending = @ \cup {id},
               !.timers = @ \cup {id},
               !.toHost = Append(@, [channel |-> channel, requestId |-> id])]
    /\ UNCHANGED <<authVars, routerVars, managerVars, child, webview, ipcMain, config>>

\* the host receives the oldest posted request: IpcMain.handleMessage(message)
HostHandleMessage(run) ==
    /\ bridge.toHost # <<>>
    /\ LET m == Head(bridge.toHost)
           rs == handleMessage(m.channel, run)
       IN bridge' = [bridge EXCEPT
               !.toHost = Tail(@),
               !.toPage = @ \o [i \in 1..Len(rs) |->
                                   [requestId |-> m.requestId, kind |-> rs[i]]],
               !.handled[m.requestId] = <<[channel |-> m.channel, run |-> run]>>,
               !.sent[m.requestId] = @ \o rs]
    /\ UNCHANGED <<authVars, routerVars, managerVars, child, webview, ipcMain, config>>

\* the oldest response of the host reaches window.__on_webview_message__
PageOnMessage ==
    /\ bridge.toPage # <<>>
    /\ LET r == Head(bridge.toPage)
       IN bridge' = pageEvent([bridge EXCEPT !.toPage = Tail(@)], r.requestId, r.kind)
    /\ UNCHANGED <<authVars, routerVars, managerVars, child, webview, ipcMain, config>>

\* a response the page has already received for request id is delivered again
PageOnDuplicate(id, kind) ==
    /\ Len(bridge.seen[id]) <= MaxDeliveries
    /\ kind # "timeout"
    /\ \E i \in 1..Len(bridge.seen[id]) : bridge.seen[id][i] = kind
    /\ bridge' = pageEvent(bridge, id, kind)
    /\ UNCHANGED <<authVars, routerVars, managerVars, child, webview, ipcMain, config>>

\* the setTimeout(.., 30000) callback of invoke for request id
PageTimerFires(id) ==
    /\ id \in bridge.timers
    /\ bridge' = pageEvent([bridge EXCEPT !.timers = @ \ {id}], id, "timeout")
    /\ UNCHANGED <<authVars, routerVars, managerVars, child, webview, ipcMain, config>>

BridgeNext ==
    \/ \E channel \in BridgeChannels : BridgeInvoke(channel)
    \/ \E run \in HostRuns : HostHandleMessage(run)
    \/ PageOnMessage
    \/ \E id \in RequestIds, kind \in {"result", "error", "unknown-error", "no-handler"} :
          PageOnDuplicate(id, kind)
    \/ \E id \in RequestIds : PageTimerFires(id)

(***************************************************************************)
(* ConfigManager and config.json, as the CLI commands use them.            *)
(***************************************************************************)
\* the settings of AppConfig the model follows
ConfigKeys == {"token", "title", "game", "audienceType"}

\* an AppConfig object: the value of each key, Absent for a key it does not have
ConfigObjects == [ConfigKeys -> {Absent, "0", "old", "new"}]

\* this.config as the constructor leaves it
ConfigDefaults == [k \in ConfigKeys |-> IF k = "audienceType" THEN "0" ELSE Absent]

\* the object spread { ...a, ...b }
spread(a, b) == [k \in ConfigKeys |-> IF b[k] # Absent THEN b[k] ELSE a[k]]

\* config.json before the first command: missing, not JSON, or an object written earlier
InitialConfigFiles ==
    {[state |-> "missing", obj |-> [k \in ConfigKeys |-> Absent]],
     [state |-> "corrupt", obj |-> [k \in ConfigKeys |-> Absent]]}
        \cup {[state |-> "json", obj |-> o] : o \in [ConfigKeys -> {Absent, "old"}]}

\* the arguments of save(): an object with some of the keys
Partials == [ConfigKeys -> {Absent, "new"}]

ConfigInit ==
    config \in {[file |-> f, mem |-> ConfigDefaults, loaded |-> FALSE, saved |-> <<>>] :
                   f \in InitialConfigFiles}

\* a command starts: const configManager = new ConfigManager()
NewConfigManager ==
    /\ config' = [config EXCEPT !.mem = ConfigDefaults, !.loaded = FALSE]
    /\ UNCHANGED <<authVars, routerVars, managerVars, child, webview, ipcMain, bridge>>

\* load(): the file's object is spread over this.config; a missing or unparsable
\* file leaves this.config as it is
ConfigLoad ==
    /\ config' = [config EXCEPT
            !.mem = IF config.file.state = "json" THEN spread(@, config.file.obj) ELSE @,
            !.loaded = TRUE]
    /\ UNCHANGED <<authVars, routerVars, managerVars, child, webview, ipcMain, bridge>>

\* save(newConfig): this.config = { ...this.config, ...newConfig } is written over the
\* file (ok: writeFileSync succeeded; its exception is caught and logged)
ConfigSave(partial, ok) ==
    /\ LET merged == spread(config.mem, partial)
       IN config' = [config EXCEPT
               !.mem = merged,
               !.file = IF ok THEN [state |-> "json", obj |-> merged] ELSE @,
               !.saved = <<[before |-> config.file.obj, partial |-> partial,
                            loaded |-> config.loaded, ok |-> ok]>>]
    /\ UNCHANGED <<authVars, routerVars, managerVars, child, webview, ipcMain, bridge>>

ConfigNext ==
    \/ NewConfigManager
    \/ ConfigLoad
    \/ \E partial \in Partials, ok \in BOOLEAN : ConfigSave(partial, ok)

\* none of the other builds is running and no IPC handler is registered
VariantIdle ==
    child = <<>> /\ webview = <<>> /\ ipcMain = <<>> /\ bridge = <<>> /\ config = <<>>

(***************************************************************************)
(* Specifications                                                          *)
(***************************************************************************)
Init ==
    /\ AuthInit /\ RouterInit /\ ManagerIdle /\ VariantIdle
    /\ options = [autoGenerateId |-> TRUE, autoTimestamp |-> TRUE]

Next == AuthNext

Spec == Init /\ [][Next]_vars

InitRouter ==
    RouterInit /\ AuthInit /\ codeVerifier = "verifier" /\ ManagerIdle /\ VariantIdle

NextRouter == RouterNext

SpecRouter == InitRouter /\ [][NextRouter]_vars

InitMulti == InitRouter /\ options = [autoGenerateId |-> TRUE, autoTimestamp |-> TRUE]

NextMulti == RouterMultiNext

SpecMulti == InitMulti /\ [][NextMulti]_vars

InitManager ==
    /\ AuthInit /\ codeVerifier = "verifier"
    /\ RouterInit /\ options = [autoGenerateId |-> TRUE, autoTimestamp |-> TRUE]
    /\ ManagerInit
    /\ VariantIdle

NextManager == ManagerNext

SpecManager == InitManager /\ [][NextManager]_vars

\* StreamlabsAuth, the router and AuthManager are not in use
Dormant ==
    /\ AuthInit /\ codeVerifier = "verifier"
    /\ RouterInit /\ options = [autoGenerateId |-> TRUE, autoTimestamp |-> TRUE]
    /\ ManagerIdle

\* neither the webview host's bridge nor the CLI is running
ToolsIdle == bridge = <<>> /\ config = <<>>

InitWebview == Dormant /\ WebviewInit /\ child = <<>> /\ ipcMain = <<>> /\ ToolsIdle

SpecWebview == InitWebview /\ [][WebviewNext]_vars

InitChild == Dormant /\ ChildInit /\ webview = <<>> /\ ipcMain = <<>> /\ ToolsIdle

SpecChild == InitChild /\ [][ChildNext]_vars

InitIpcMain == Dormant /\ IpcMainInit /\ child = <<>> /\ webview = <<>> /\ ToolsIdle

SpecIpcMain == InitIpcMain /\ [][IpcMainNext]_vars

InitBridge ==
    Dormant /\ BridgeInit /\ child = <<>> /\ webview = <<>> /\ ipcMain = <<>> /\ config = <<>>

SpecBridge == InitBridge /\ [][BridgeNext]_vars

InitConfig ==
    Dormant /\ ConfigInit /\ child = <<>> /\ webview = <<>> /\ ipcMain = <<>> /\ bridge = <<>>

SpecConfig == InitConfig /\ [][ConfigNext]_vars

(***************************************************************************)
(* Properties of StreamlabsAuth (checked under Spec)                       *)
(***************************************************************************)

\* nothing of the attempt is in flight: no awaited load, timer, cookie save,
\* exchange or window close is outstanding, so only the user or the page can act
Quiet ==
    /\ pc \notin {"cookies", "loading"}
    /\ timers = 0
    /\ saveQueue = <<>>
    /\ fetchQueue = <<>>
    /\ cleanups = 0
    /\ browser # "closing"

Settled == outcome # <<>>

\* C1: within one attempt executeTokenFetch is started at most once, however many
\* navigation callbacks deliver a success URL, and it is given the authorization
\* code of the first success URL delivered; later success URLs start nothing.
C1_SingleFire ==
    /\ Len(saveQueue) + Len(fetchStarts) <= 1
    /\ saveQueue # <<>> => saveQueue = firstSuccess
    /\ fetchStarts # <<>> => fetchStarts = firstSuccess
    /\ Len(fetchQueue) <= 1

\* the exchange was started once although a later success URL with another code arrived
C1_Witness ==
    /\ Len(fetchStarts) = 1
    /\ laterSuccess
    /\ fetchStarts = firstSuccess

\* C2: the promise of findToken is settled at most once, and exactly once in every
\* run in which an exchange result is delivered, the verifier is missing, or the
\* window is closed (once nothing of the attempt is in flight any more).
C2_SettledExactlyOnce ==
    /\ Len(outcome) <= 1
    /\ delivered => Len(outcome) = 1
    /\ (fetchStarts # <<>> /\ codeVerifier = "") => Len(outcome) = 1
    /\ (browser = "closed" /\ Quiet) => Len(outcome) = 1

\* C3 (as stated): if the window is closed by the user while tokenFetchStarted is
\* false, findToken is rejected with 'Window closed by user', and that error is
\* produced by nothing else.
C3_ClosedUnstarted ==
    /\ (closedBy = "user" /\ ~tokenFetchStarted) => outcome = <<WINDOW_CLOSED>>
    /\ outcome = <<WINDOW_CLOSED>> => (closedBy = "user" /\ ~tokenFetchStarted)

\* C3 (amended): if the window is closed by the user while tokenFetchStarted is false
\* and findToken is still pending, findToken is rejected with 'Window closed by
\* user'; that error is produced only by this condition, never by an exchange,
\* network, parse or load failure.
C3_ClosedUnstartedPending ==
    /\ (closedBy = "user" /\ closedPending /\ ~tokenFetchStarted)
            => outcome = <<WINDOW_CLOSED>>
    /\ outcome = <<WINDOW_CLOSED>>
            => (closedBy = "user" /\ closedPending /\ ~tokenFetchStarted)
    /\ (Settled /\ outcome # <<WINDOW_CLOSED>>) => outcome[1].error # "Window closed by user"

\* the user closed the window before any success URL and the attempt was rejected for it
C3_Witness ==
    /\ closedBy = "user"
    /\ ~tokenFetchStarted
    /\ outcome = <<WINDOW_CLOSED>>

\* C4: closing the window before the attempt has completed always ends the attempt
\* in failure: once nothing is in flight any more, findToken has been rejected.
C4_ClosureAlwaysFails ==
    (closedBy = "user" /\ closedPending /\ Quiet)
        => (Settled /\ outcome[1].kind = "rejected")

\* C5: the exchange is started (tokenFetchStarted set, executeTokenFetch queued) only
\* by the delivery of a URL that parses, carries a non-empty code and matches a
\* success marker.
C5_OnlyCodeAndMarker ==
    [][(tokenFetchStarted' # tokenFetchStarted \/ Len(saveQueue') > Len(saveQueue))
        => (/\ currentUrl' \in Urls
            /\ IsSuccessUrl(currentUrl')
            /\ tokenFetchStarted'
            /\ saveQueue' = Append(saveQueue, UrlCode[currentUrl']))]_vars

\* a URL with a marker but no code, with a code but no marker, or unparsable was
\* delivered and nothing was started
C5_Witness ==
    /\ currentUrl \in {"marker_nocode", "marker_emptycode", "code_nomarker", "bad"}
    /\ ~tokenFetchStarted
    /\ saveQueue = <<>>
    /\ fetchStarts = <<>>
    /\ pc = "loaded"

\* C6: an exchange result counts as success only if result.success and
\* result.data.success are true and token data is present; every other result
\* ends the attempt rejected, the rejection carrying the result.
C6_SuccessNeedsTokenData ==
    (Settled /\ outcome[1].result # "none") =>
        LET r == Results[outcome[1].result]
            good == r.success /\ r.data = "object" /\ r.dsuccess = "true" /\ r.ddata = "token"
        IN  IF good
            THEN outcome[1].kind = "resolved"
            ELSE outcome[1].kind = "rejected" /\ outcome[1].error = "Fetch failed"

\* C7: whenever findToken has settled, the auth window gets closed: once nothing is
\* in flight any more, no settled attempt still has its window open.
C7_WindowClosedAfterSettle ==
    (Settled /\ Quiet) => browser \in {"none", "closed"}

\* C8: every attempt terminates: a started attempt never comes to rest, with nothing
\* in flight, while findToken is still pending.
C8_AttemptTerminates ==
    (pc # "idle" /\ Quiet) => Settled

(***************************************************************************)
(* Properties of IpcMessageRouter (checked under SpecRouter)               *)
(***************************************************************************)

\* the text parses as JSON and is a valid message of a known type
WellFormed(text) == text \in JsonTexts /\ isValidIpcMessage(JsonValue[text])

\* C9: dispatching a text that is not valid JSON invokes exactly one callback, with a
\* RAW_STRING message whose payload.data is the original text: the RAW_STRING handler
\* when one is registered (onUnhandledMessage otherwise), and never onParseError.
C9_RawStringDelivery ==
    (wire # <<>> /\ wire[1] \in NonJsonTexts) =>
        /\ Len(calls) = 1
        /\ ~threw
        /\ calls[1].fn # "onParseError"
        /\ calls[1].msg.type = "RAW_STRING"
        /\ calls[1].msg.data = wire[1]
        /\ lastEvent["RAW_STRING"] # NoHandler =>
                (calls[1].fn = "handler" /\ calls[1].handler = lastEvent["RAW_STRING"])
        /\ lastEvent["RAW_STRING"] = NoHandler => calls[1].fn = "onUnhandledMessage"

\* "not-json" was dispatched and the RAW_STRING handler received it
C9_Witness ==
    /\ wire = <<"not-json">>
    /\ Len(calls) = 1
    /\ calls[1].fn = "handler"
    /\ calls[1].msg.data = "not-json"

\* C10: after any sequence of on / off / registerHandlers, dispatching a well-formed
\* message of type T invokes exactly once the handler most recently registered for T
\* and not removed since; with none registered it invokes onUnhandledMessage exactly
\* once and no handler; handle does not throw.
C10_Dispatch ==
    (wire # <<>> /\ WellFormed(wire[1])) =>
        LET T == JsonValue[wire[1]].type
        IN  /\ Len(calls) = 1
            /\ ~threw
            /\ calls[1].msg.type = T
            /\ IF lastEvent[T] # NoHandler
               THEN calls[1].fn = "handler" /\ calls[1].handler = lastEvent[T]
               ELSE calls[1].fn = "onUnhandledMessage" /\ calls[1].handler = NoHandler

\* a well-formed USER_ACTION message reached the handler registered for it, while
\* another type has another handler and a third has none
C10_Witness ==
    /\ wire = <<"user">>
    /\ Len(calls) = 1
    /\ calls[1].fn = "handler"
    /\ calls[1].handler = "h2"
    /\ handlers["LOG_EVENT"] = "h1"
    /\ handlers["RAW_STRING"] = NoHandler

\* C11: handle never propagates a handler's exception: when the registered handler
\* throws, handle still returns normally after that one call, no dispatch changes
\* the handler table, and a message dispatched after a handler has thrown still
\* reaches the handler registered for its type.
C11_HandlerErrorContained ==
    /\ ~threw
    /\ handlers = lastEvent
    /\ (wire # <<>> /\ WellFormed(wire[1])
            /\ handlerThrows(handlers[JsonValue[wire[1]].type]))
        => (Len(calls) = 1 /\ calls[1].fn = "handler")
    /\ (caught /\ wire # <<>> /\ WellFormed(wire[1])
            /\ handlers[JsonValue[wire[1]].type] # NoHandler)
        => (Len(calls) = 1 /\ calls[1].fn = "handler"
            /\ calls[1].handler = handlers[JsonValue[wire[1]].type])

\* after the USER_ACTION handler threw in an earlier dispatch, with that handler still
\* registered, a LOG_EVENT message has been delivered to its own handler
C11_Witness ==
    /\ caught
    /\ handlers["USER_ACTION"] = "h2"
    /\ wire = <<"log_full">>
    /\ calls # <<>>
    /\ calls[1].fn = "handler"
    /\ calls[1].handler = "h1"
    /\ ~threw

\* C12: for every router instance, every message object passed to a handler has id
\* populated, timestamp populated and a type that is one of the four known variants.
C12_DeliveredMessagePopulated ==
    \A i \in 1..Len(calls) :
        calls[i].fn = "handler" =>
            /\ calls[i].msg.id # ""
            /\ calls[i].msg.timestamp # 0
            /\ calls[i].msg.type \in {"WINDOW_CONTEXT", "USER_ACTION", "LOG_EVENT", "RAW_STRING"}

\* the texts that parse as JSON but are no valid message: not an object, type missing,
\* not a string or unknown, or no payload key
InvalidJsonTexts ==
    {"number", "null", "string", "array", "bogus_type", "no_payload", "no_type", "num_type"}

\* C13: a text that parses as JSON but is not a valid message makes the router call
\* onParseError exactly once and nothing else: no handler, no onUnhandledMessage, and
\* handle does not throw.
C13_InvalidReportedOnce ==
    (wire # <<>> /\ wire[1] \in InvalidJsonTexts) =>
        /\ Len(calls) = 1
        /\ calls[1].fn = "onParseError"
        /\ calls[1].handler = NoHandler
        /\ ~threw

\* a LOG_EVENT object without payload was reported although a LOG_EVENT handler is registered
C13_Witness ==
    /\ wire = <<"no_payload">>
    /\ handlers["LOG_EVENT"] # NoHandler
    /\ Len(calls) = 1
    /\ calls[1].fn = "onParseError"

reportedParseError == \E i \in 1..Len(calls) : calls[i].fn = "onParseError"

deliveredRaw(text) ==
    \E i \in 1..Len(calls) :
        /\ calls[i].fn = "handler"
        /\ calls[i].msg.type = "RAW_STRING"
        /\ calls[i].msg.data = text

nonBlankAt == {i \in 1..Len(multi) : multi[i] # "blank"}

\* the position in the text of the k-th such field
kthNonBlank(k) == CHOOSE j \in nonBlankAt : Cardinality({i \in nonBlankAt : i <= j}) = k

\* what handle() does with the text on its own, with the handlers now registered
aloneCalls(text) ==
    IF text \in NonJsonTexts \/ text = "blank"
    THEN IF handlers["RAW_STRING"] = NoHandler THEN <<"onUnhandledMessage">> ELSE <<"handler">>
    ELSE IF text \in InvalidJsonTexts
         THEN <<"onParseError">>
         ELSE IF handlers[JsonValue[text].type] = NoHandler
              THEN <<"onUnhandledMessage">> ELSE <<"handler">>

\* C15: handleMultiple dispatches exactly the non-blank segments of the text, once
\* each and in their order, each with the outcome it has when dispatched alone,
\* whatever happened to the segments before it; handleMultiple does not throw.
C15_SegmentsIsolated ==
    multi # <<>> =>
        /\ ~multiThrew
        /\ Len(multiLog) = Cardinality(nonBlankAt)
        /\ \A k \in 1..Len(multiLog) :
            /\ multiLog[k].text = multi[kthNonBlank(k)]
            /\ Len(multiLog[k].calls) = 1
            /\ <<multiLog[k].calls[1].fn>> = aloneCalls(multiLog[k].text)

\* the handler of the first segment threw and the second, unparsable, segment was
\* still delivered to the RAW_STRING handler
C15_Witness ==
    /\ multi = <<"user", "not-json">>
    /\ handlers["USER_ACTION"] = "h2"
    /\ handlers["RAW_STRING"] = "h1"
    /\ Len(multiLog) = 2
    /\ multiLog[2].calls[1].fn = "handler"
    /\ multiLog[2].calls[1].msg.data = "not-json"

(***************************************************************************)
(* Properties of AuthManager (checked under SpecManager)                   *)
(***************************************************************************)

\* tokens.json exists, parses as JSON and holds a non-empty oauth_token
usableCache(file) ==
    /\ file.exists
    /\ file.text.parses
    /\ file.text.value.kind = "object"
    /\ file.text.value.obj.oauth_token # Absent
    /\ file.text.value.obj.oauth_token # ""

attemptsOf(c) == {i \in 1..Len(attempts) : attempts[i].call = c}

savesOf(c) == {i \in 1..Len(saves) : saves[i].call = c}

\* C16: a retrieveToken call returns the cached token, constructing no StreamlabsAuth,
\* exactly when tokens.json exists, parses and holds a truthy oauth_token at the call;
\* with a missing, unparsable or token-less file the call does not fail on the file
\* but starts exactly one acquisition attempt.
C16_CacheHitIffUsable ==
    \A c \in 1..Len(rtCalls) :
        /\ rtCalls[c].hit <=> usableCache(rtCalls[c].before)
        /\ rtCalls[c].hit =>
            /\ rtCalls[c].phase = "resolved"
            /\ rtCalls[c].value = rtCalls[c].before.text.value.obj.oauth_token
            /\ attemptsOf(c) = {}
        /\ ~rtCalls[c].hit =>
            /\ Cardinality(attemptsOf(c)) = 1
            /\ rtCalls[c].findToken # "none"
            /\ rtCalls[c].findToken = "pending" => rtCalls[c].phase = "awaiting"

\* one call found an unparsable tokens.json and started an attempt; after that attempt
\* saved a token, a second call returned it from the cache
C16_Witness ==
    /\ Len(rtCalls) = 2
    /\ rtCalls[1].before = File(GarbageText)
    /\ ~rtCalls[1].hit
    /\ Cardinality(attemptsOf(1)) = 1
    /\ rtCalls[2].hit
    /\ attemptsOf(2) = {}

\* C17: saving an auth result merges it into tokens.json: every key the file held
\* before the save that is not a key of the saved record is still there, with its old
\* value, after the save.
C17_SaveMerges ==
    \A i \in 1..Len(saves) :
        (saves[i].before.exists /\ saves[i].before.text.parses
                /\ saves[i].before.text.value.kind = "object") =>
            \A k \in Keys :
                (/\ saves[i].before.text.value.obj[k] # Absent
                 /\ saves[i].data.obj[k] = Absent)
                    => /\ saves[i].after.text.parses
                       /\ saves[i].after.text.value.obj[k] = saves[i].before.text.value.obj[k]

\* C18: when an attempt completes with auth data holding token T, that retrieveToken
\* call resolves to T, tokens.json then holds oauth_token = T, and every call made
\* after that save, while the file is as the save left it, returns T from the cache on
\* any AuthManager instance without starting an attempt.
C18_SavedTokenServed ==
    \A i \in 1..Len(saves) :
        LET T == saves[i].data.obj.oauth_token
        IN  (saves[i].data.kind = "object" /\ T # Absent /\ T # "") =>
                /\ rtCalls[saves[i].call].phase = "resolved"
                /\ rtCalls[saves[i].call].value = T
                /\ saves[i].after.exists
                /\ saves[i].after.text.parses
                /\ saves[i].after.text.value.obj.oauth_token = T
                /\ i = Len(saves) => tokenFile = saves[i].after
                /\ \A d \in 1..Len(rtCalls) :
                    rtCalls[d].savesBefore = i =>
                        /\ rtCalls[d].hit
                        /\ rtCalls[d].phase = "resolved"
                        /\ rtCalls[d].value = T
                        /\ attemptsOf(d) = {}

\* an attempt saved T1, and a later call on another AuthManager instance got T1 from the cache
C18_Witness ==
    /\ Len(saves) = 1
    /\ saves[1].data = Object(Obj("T1", Absent, Absent))
    /\ Len(rtCalls) = 2
    /\ rtCalls[1].value = "T1"
    /\ rtCalls[2].savesBefore = 1
    /\ rtCalls[2].mgr # rtCalls[1].mgr
    /\ rtCalls[2].hit
    /\ rtCalls[2].value = "T1"

\* C19: a retrieveToken call starts at most one attempt; if its findToken rejects, the
\* call is rejected with that same error, no further StreamlabsAuth is constructed
\* for it, and the call has written nothing to tokens.json.
C19_NoRetryOnFailure ==
    \A c \in 1..Len(rtCalls) :
        /\ Cardinality(attemptsOf(c)) <= 1
        /\ rtCalls[c].findToken \in AuthErrors =>
            /\ rtCalls[c].phase = "rejected"
            /\ rtCalls[c].value = rtCalls[c].findToken
            /\ Cardinality(attemptsOf(c)) = 1
            /\ savesOf(c) = {}
            /\ saves = <<>> => tokenFile = rtCalls[c].before

\* findToken rejected with 'Window closed by user' and tokens.json is still the
\* token-less file it was
C19_Witness ==
    /\ Len(rtCalls) >= 1
    /\ rtCalls[1].findToken = "Window closed by user"
    /\ rtCalls[1].phase = "rejected"
    /\ rtCalls[1].before = File(JSONstringify(Object(Obj("", Absent, "r0"))))
    /\ tokenFile = rtCalls[1].before
    /\ Len(attempts) = 1

\* C20: no two acquisition attempts use the same PKCE verifier: every StreamlabsAuth
\* constructed receives a verifier of its own, also when retrieveToken is called again
\* on the same AuthManager after an earlier attempt failed.
C20_VerifierPerAttempt ==
    \A i, j \in 1..Len(attempts) :
        i # j => attempts[i].verifier # attempts[j].verifier

(***************************************************************************)
(* Properties of the login entry point (checked under SpecManager)         *)
(***************************************************************************)

\* C21: at any moment at most one acquisition attempt, a browser window with
\* an unsettled findToken, exists: a login request arriving while one is
\* outstanding opens no second one
C21_OneAttemptAtATime ==
    Cardinality({c \in 1..Len(rtCalls) : rtCalls[c].phase = "awaiting"}) <= 1

\* C23: the authorization URL handed to every attempt is the Streamlabs login
\* endpoint with force_verify=1 and a code_challenge, and the challenge is
\* the S256 image of the verifier handed to the same attempt, which is the
\* code_verifier of its exchange request
C23_AuthUrlMatchesVerifier ==
    \A i \in 1..Len(attempts) :
        LET a == attempts[i] IN
        /\ a.authUrl.endpoint = "https://streamlabs.com/m/login"
        /\ a.authUrl.force_verify = "1"
        /\ a.authUrl.code_challenge = <<"S256", exchangeQuery("abc", a.verifier).code_verifier>>
        /\ a.verifier = managers[a.mgr]

C23_Witness ==
    /\ Len(attempts) = 2
    /\ attempts[1].authUrl.code_challenge # attempts[2].authUrl.code_challenge

(***************************************************************************)
(* Cookie persistence and navigation of StreamlabsAuth (checked under Spec)*)
(***************************************************************************)

\* C22: a cookie read or write that fails never fails the attempt: after a
\* failed load the login page is still requested (the window being there)
\* and findToken stays as it was; after a failed save at code capture
\* executeTokenFetch still runs, and issues the exchange when a verifier and
\* the window are there; after a failed save at cleanup the window is still
\* closed
C22_CookieFailureAbsorbed ==
    [][~ioOk' =>
        /\ (pc = "cookies" /\ pc' # "cookies" /\ window)
              => (pc' = "loading" /\ outcome' = outcome)
        /\ Len(saveQueue') < Len(saveQueue)
              => /\ fetchStarts' = Append(fetchStarts, Head(saveQueue))
                 /\ (codeVerifier # "" /\ window)
                       => (fetchQueue' = Append(fetchQueue, Head(saveQueue))
                           /\ outcome' = outcome)
        /\ (cleanups' < cleanups /\ window) => browser' = "closing"]_vars

\* the save at code capture failed and the exchange is in flight
C22_Witness ==
    /\ ~ioOk
    /\ fetchQueue # <<>>
    /\ cleanups = 0 /\ ~delivered
    /\ outcome = <<>>

\* C26: no code has its exchange started while its cookie save is still
\* pending: executeTokenFetch runs for a code only once the save queued for
\* it by checkSuccess has finished
C26_SaveBeforeExchange ==
    /\ \A i \in 1..Len(fetchStarts), j \in 1..Len(saveQueue) : fetchStarts[i] # saveQueue[j]
    /\ Len(fetchQueue) <= Len(fetchStarts)
    /\ (tokenFetchStarted /\ saveQueue # <<>>) => fetchQueue = <<>>

C26_Witness ==
    /\ tokenFetchStarted
    /\ saveQueue = <<>>
    /\ fetchQueue # <<>> /\ fetchQueue = fetchStarts

\* C27: every navigation event, in-page ones included, classifies the URL,
\* and a logged-in URL arms the timer that leads to the forced navigation:
\* once the first load has finished, a window sitting on a logged-in URL has
\* a timer pending or the forced navigation already issued
C27_EveryNavigationClassified ==
    (pc = "loaded" /\ window /\ currentUrl # "" /\ loggedIn(currentUrl))
        => (timers > 0 \/ authNavIssued)

C24_WrapperNeverThrows ==
    ipcMain.last # <<>> =>
        LET l == ipcMain.last IN
        /\ l.reply # "rejected"
        /\ (l.invoked /\ l.run \in {"throwsError", "throwsNoMessage", "throwsUndefined"})
              => l.reply \in {"failure: message", "failure: Unknown error during login"}
        /\ (l.options.requireStreamApi /\ ~l.api) => (~l.invoked /\ l.reply = "null")

\* C25: the login page is never requested before the cookie jar has been
\* read and injected, or that has failed
C25_CookiesBeforeLogin ==
    \A i \in 1..Len(webview.order) :
        webview.order[i] = "withUrl(login)"
            => \E j \in 1..(i - 1) : webview.order[j] \in CookieJars

\* C28: a forced navigation issued by the debounce timer finds the session,
\* at the moment the timer fires, on a URL that is not on the Streamlabs side
C28_TimerRereadsUrl ==
    (webview.forced # <<>> /\ webview.forced.by = "timer")
        => ~includes(webview.forced.at, "streamlabs")

\* C30: once executeTokenFetch has run for a captured code with no verifier
\* held, no exchange is in flight and the failure has been reported to the
\* parent process
C30_MissingVerifierReported ==
    (child.codeVerifier = "" /\ child.tokenFetchStarted /\ child.saving = <<>>)
        => (child.fetching = <<>> /\ \E i \in 1..Len(child.sent) : child.sent[i] = "error")

\* C31: the token exchange starts only after login was detected and the forced navigation
\* to the authorization URL was issued; a success-looking URL seen before that point does
\* not start the exchange. checkSuccess tests only the URL and tokenFetchStarted.
C31_ExchangeAfterForcedNavigation ==
    tokenFetchStarted => authNavIssued

\* C38: once findToken has settled, no later navigation event, timer expiry or IPC message
\* starts a token exchange or forces a navigation. The window and its listeners outlive a
\* rejection from createWindow.
C38_SettledIsAbsorbing ==
    [][outcome # <<>> =>
          /\ tokenFetchStarted' = tokenFetchStarted
          /\ forcedBy' = forcedBy
          /\ authNavIssued' = authNavIssued]_vars

\* C39: once tokenFetchStarted is true, neither a pending debounce timer nor a manual
\* trigger issues a forced navigation while cookies are being saved or the exchange is
\* in flight.
C39_NoForcedNavigationDuringExchange ==
    [][(tokenFetchStarted /\ (saveQueue # <<>> \/ fetchQueue # <<>>) /\ outcome = <<>>) =>
          /\ forcedBy' = forcedBy
          /\ authNavIssued' = authNavIssued]_vars

\* C37: a 'log-console' or 'fetch-result' IPC message changes an attempt's state only if
\* its sender is the attempt's own, still-open auth window. The listeners of the
\* child-process build act on messages of every sender.
C37_OnlyOwnWindowActs ==
    \A m \in child.ipcActed : m[2] = "auth"

\* C33: in the webview build, when the in-page exchange fetch yields
\* {success: true, data: {success: true, data: {oauth_token, ...}}} the structured result
\* reaches the controller and findToken resolves with the token data; a successful
\* in-page exchange never ends in a rejection.
C33_SuccessfulExchangeResolves ==
    webview.fetched = "ok" =>
        (webview.outcome # <<>> /\ webview.outcome[1].kind = "resolved")

\* C34: when the WebSocket interceptor of the page posts a captured payload whose text is
\* a JSON object containing 'setUniqueId', the RAW_STRING handler of the host receives it
\* (and stores it). A text that parses as JSON is never wrapped as a raw string.
C34_PayloadReachesRawStringHandler ==
    (wire = <<"tiktok">> /\ handlers["RAW_STRING"] # NoHandler) =>
        \E i \in 1..Len(calls) :
            /\ calls[i].fn = "handler"
            /\ calls[i].msg.type = "RAW_STRING"
            /\ calls[i].msg.data = "tiktok"

\* C32: an 'auth:login' request always yields a structured result: {success: true} only
\* if retrieveToken resolved, and then the stream API client is (re)created from that
\* token; otherwise {success: false, error} with an error text, and the stream API
\* client is left exactly as it was before the request.
C32_LoginResultStructured ==
    ipcMain.login # <<>> =>
        LET l == ipcMain.login[1]
        IN  /\ l.success <=> l.rt.kind = "resolved"
            /\ l.success => (l.after = l.rt.token /\ l.after # "none")
            /\ ~l.success => (l.after = l.before /\ l.error # "")

\* a login failed while a stream API client from an earlier login was held
C32_Witness ==
    /\ ipcMain.login # <<>>
    /\ ~ipcMain.login[1].success
    /\ ipcMain.login[1].before # "none"
    /\ ipcMain.client = ipcMain.login[1].before

C36_SettlesExactlyOnce ==
    \A id \in RequestIds :
        /\ Len(bridge.settled[id]) <= 1
        /\ bridge.seen[id] = <<>> => bridge.settled[id] = <<>>
        /\ bridge.seen[id] # <<>> =>
               bridge.settled[id] = <<CASE bridge.seen[id][1] = "result" -> "resolved"
                                        [] bridge.seen[id][1] = "timeout" -> "timeout"
                                        [] OTHER -> "rejected">>
        /\ (id \in bridge.pending) <=> (id <= bridge.nextId /\ bridge.settled[id] = <<>>)

\* one request was answered, the response was delivered twice and then the timer fired;
\* another timed out before its response arrived
C36_Witness ==
    \E id, other \in RequestIds :
        /\ bridge.seen[id] = <<"result", "result", "timeout">>
        /\ bridge.settled[id] = <<"resolved">>
        /\ bridge.seen[other] = <<"timeout", "error">>
        /\ bridge.settled[other] = <<"timeout">>

\* C40: ConfigManager.save(partial) never drops settings already stored in the config
\* file: after save the file contains every key it held before the call, with the keys
\* of partial overwritten, whether or not load() was called on the instance first.
C40_SaveKeepsStoredSettings ==
    (config.saved # <<>> /\ config.saved[1].ok) =>
        \A k \in ConfigKeys :
            /\ config.saved[1].before[k] # Absent => config.file.obj[k] # Absent
            /\ config.saved[1].partial[k] # Absent =>
                   config.file.obj[k] = config.saved[1].partial[k]

=============================================================================
